---- MODULE Spec2Model ----
(***************************************************************************)
(* Model of robusta's ActionRequestReceiver                                *)
(* (src/src/robusta/integrations/receiver.py): the reconnect loop run on   *)
(* the receiver thread, the websocket callbacks on_open / on_message /     *)
(* on_error, the request validation and the dispatch to run_actions.       *)
(*                                                                         *)
(* Python values are encoded as follows.  An optional value is a sequence  *)
(* of length at most one: None is <<>> and a present value v is <<v>>.     *)
(* HMAC-SHA256 is modelled as an ideal (collision free) keyed hash: the    *)
(* digest of message m under key k is the record [key |-> k, msg |-> m].   *)
(***************************************************************************)
EXTENDS Integers, Sequences, FiniteSets, TLC

(* ----------------------------- bounds --------------------------------- *)
MaxTime == 2
MaxWindow == 1
MaxEntries == 3

(* ------------------------- values and encodings ----------------------- *)
None == <<>>
Some(x) == <<x>>

\* Python truthiness of an optional string: None and "" are falsy.
Truthy(opt) == opt # None /\ opt[1] # ""

KeyValues == {None, Some(""), Some("k1"), Some("k2")}
\* A missing identity value is None (key not in the configuration) or "".
IdValues == {None, Some("acct")}
ClusterValues == {Some(""), Some("cluster")}

\* TARGET_ID, imported from core.model.env_vars (line 15).
TARGET_ID == "node-1"

\* The injected event_handler.run_actions is a collaborator: it is modelled
\* as a handler that raises exactly for the actions it cannot run.
FailingActions == {"broken_action"}

(* ----------------------------- data model ------------------------------ *)
OptionalFields == {"action_params", "sinks", "origin"}

BodyFields ==
    {"account_id", "cluster_name", "action_name", "timestamp",
     "action_params", "sinks", "origin"}

\* The optional parts (action_params, sinks) that occur with each action.
BodyShapes ==
    { [action_name |-> "restart_pod", action_params |-> Some([pod |-> "x"]),
       sinks |-> Some(<<"slack", "file">>)],
      [action_name |-> "delete_pod", action_params |-> None, sinks |-> None],
      [action_name |-> "broken_action", action_params |-> Some([pod |-> "y"]),
       sinks |-> None] }

ActionRequestBody ==
    { [account_id |-> "a", cluster_name |-> "c", action_name |-> sh.action_name,
       timestamp |-> ts, action_params |-> sh.action_params, sinks |-> sh.sinks,
       origin |-> None] : sh \in BodyShapes, ts \in 0..MaxTime }

\* body.json(exclude_none=True): the JSON object of the fields that hold a
\* value; a field holding None is left out.
BodyJson(body) ==
    [f \in {g \in BodyFields : g \notin OptionalFields \/ body[g] # None} |->
        IF f \in OptionalFields THEN body[f][1] ELSE body[f]]

\* hmac.new(key, msg, hashlib.sha256).hexdigest(), as an ideal keyed hash.
HmacHexdigest(key, msg) == [key |-> key, msg |-> msg]

\* What a holder of key k sends as the signature of body b.
Sign(body, k) ==
    [prefix |-> "v0=",
     digest |-> HmacHexdigest(k, [prefix |-> "v0:", json |-> BodyJson(body)])]

validate_request_StaleAccepted(action_request, signing_key, time, window) ==
    LET format_req == [prefix |-> "v0:", json |-> BodyJson(action_request.body)]
    IN  IF ~Truthy(signing_key) THEN FALSE
        ELSE LET request_hash == HmacHexdigest(signing_key[1], format_req)
                 generated_signature == [prefix |-> "v0=", digest |-> request_hash]
             IN  generated_signature = action_request.signature

validate_request_EmptyKeyAccepted(action_request, signing_key, time, window) ==
    LET format_req == [prefix |-> "v0:", json |-> BodyJson(action_request.body)]
    IN  IF signing_key = None THEN FALSE
        ELSE IF time - action_request.body.timestamp > window THEN FALSE
        ELSE LET request_hash == HmacHexdigest(signing_key[1], format_req)
                 generated_signature == [prefix |-> "v0=", digest |-> request_hash]
             IN  generated_signature = action_request.signature

validate_request_WindowOffByOne(action_request, signing_key, time, window) ==
    LET format_req == [prefix |-> "v0:", json |-> BodyJson(action_request.body)]
    IN  IF ~Truthy(signing_key) THEN FALSE
        ELSE IF time - action_request.body.timestamp >= window THEN FALSE
        ELSE LET request_hash == HmacHexdigest(signing_key[1], format_req)
                 generated_signature == [prefix |-> "v0=", digest |-> request_hash]
             IN  generated_signature = action_request.signature

\* ActionRequestReceiver.__validate_request; signing_key is the value of
\* get_global_config().get("signing_key") and time the value of time.time().
validate_request(action_request, signing_key, time, window) ==
    LET format_req == [prefix |-> "v0:", json |-> BodyJson(action_request.body)]
    IN  IF ~Truthy(signing_key) THEN FALSE
        ELSE IF time - action_request.body.timestamp > window THEN FALSE
        ELSE LET request_hash == HmacHexdigest(signing_key[1], format_req)
                 generated_signature == [prefix |-> "v0=", digest |-> request_hash]
             IN  generated_signature = action_request.signature

(* --------------------------- inbound messages -------------------------- *)
\* ExternalActionRequest values carried by legacy callback entries.
LegacyRequests ==
    { [target_id |-> TARGET_ID, action_name |-> sh.action_name,
       action_params |-> sh.action_params, sinks |-> sh.sinks, origin |-> None] :
      sh \in {x \in BodyShapes : x.action_name # "delete_pod"} }

\* One entry of `actions`: value is what IncomingRequest.parse_raw makes of
\* action["value"].  An entry without a "value" key fails in the same try
\* block as one whose value does not parse, and is modelled by the latter.
Entries ==
    { [value |-> [parses |-> TRUE, incoming_request |-> r]] : r \in LegacyRequests }
    \cup { [value |-> [parses |-> FALSE]] }

EntryLists == UNION { [1..n -> Entries] : n \in 0..MaxEntries }

\* The JSON value under the key "actions" of an inbound object.
JsonAbsent == [type |-> "absent"]
JsonNull == [type |-> "null"]
JsonInt(n) == [type |-> "int", value |-> n]
JsonList(items) == [type |-> "list", items |-> items]

\* Signatures an inbound direct-format message may carry for body b: signed
\* with a key (also the empty key), the signature of the same request with
\* another timestamp, a signature with another version prefix.
Signatures(b) ==
    { Sign(b, k) : k \in {"k1", "k2", ""} }
    \cup { Sign([b EXCEPT !.timestamp = 0], "k1"),
           [Sign(b, "k1") EXCEPT !.prefix = "v1="] }

LegacyMessages ==
    { [kind |-> "object", actions |-> JsonList(l), signature |-> None, body |-> None] :
      l \in EntryLists \ {<<>>} }

DirectMessages ==
    UNION { { [kind |-> "object", actions |-> JsonAbsent, signature |-> Some(sg),
               body |-> Some(b)] : sg \in Signatures(b) } : b \in ActionRequestBody }
    \cup
    { [kind |-> "object", actions |-> a, signature |-> Some(Sign(b, "k1")), body |-> Some(b)] :
      a \in {JsonNull, JsonList(<<>>)}, b \in ActionRequestBody }
    \cup
    { [kind |-> "object", actions |-> JsonAbsent, signature |-> None, body |-> Some(b)] :
      b \in {c \in ActionRequestBody : c.timestamp = 0} }

MalformedMessages ==
    { [kind |-> "text"], [kind |-> "array"],
      [kind |-> "object", actions |-> JsonInt(5), signature |-> None, body |-> None],
      [kind |-> "object", actions |-> JsonInt(0), signature |-> None, body |-> None],
      [kind |-> "object", actions |-> JsonAbsent, signature |-> None, body |-> None] }

Messages == LegacyMessages \cup DirectMessages \cup MalformedMessages

NoMessage == [kind |-> "none"]

(* ------------------------------ dispatch ------------------------------- *)
\* ActionRequestReceiver.__run_external_action_request: the one call of
\* event_handler.run_actions(execution_event, [action]) it makes, with
\* whether that call raised.  entry is the index of the legacy entry being
\* handled (0 for a direct-format message).
run_external_action_request(callback_request, entry) ==
    [ callback_request |-> callback_request,
      named_sinks |-> callback_request.sinks,
      action |-> [action_name |-> callback_request.action_name,
                  action_params |-> callback_request.action_params],
      raised |-> callback_request.action_name \in FailingActions,
      entry |-> entry ]

\* incoming_event.get("actions", None) followed by `if actions:`.
ActionsTruthy(actions) ==
    CASE actions.type = "absent" -> FALSE
      [] actions.type = "null" -> FALSE
      [] actions.type = "int" -> actions.value # 0
      [] actions.type = "list" -> Len(actions.items) > 0

RECURSIVE LegacyLoop_AbortOnFailure(_, _)
LegacyLoop_AbortOnFailure(items, i) ==
    IF i > Len(items) THEN <<>>
    ELSE LET action == items[i]
         IN  IF ~action.value.parses
             THEN <<>>
             ELSE <<run_external_action_request(action.value.incoming_request, i)>>
                  \o LegacyLoop_AbortOnFailure(items, i + 1)

\* The `for action in actions` loop of on_message, from entry i on: the
\* run_actions calls it makes.  A parse error and an exception of
\* run_actions are caught inside the loop body.
RECURSIVE LegacyLoop(_, _)
LegacyLoop(items, i) ==
    IF i > Len(items) THEN <<>>
    ELSE LET action == items[i]
         IN  IF ~action.value.parses
             THEN LegacyLoop(items, i + 1)
             ELSE <<run_external_action_request(action.value.incoming_request, i)>>
                  \o LegacyLoop(items, i + 1)

\* ExternalActionRequest(target_id="", ...) built from a validated request.
DirectRequest_TargetFromNode(body) ==
    [ target_id |-> TARGET_ID, action_name |-> body.action_name,
      action_params |-> body.action_params, sinks |-> body.sinks,
      origin |-> body.origin ]

DirectRequest(body) ==
    [ target_id |-> "", action_name |-> body.action_name,
      action_params |-> body.action_params, sinks |-> body.sinks,
      origin |-> body.origin ]

Escaping_Uncaught(calls) == \E i \in 1..Len(calls) : calls[i].raised

\* The `except Exception` clauses of on_message (lines 108 and 128) around
\* the run_actions calls: whether an exception of these calls goes on.
Escaping(calls) == FALSE

\* The outcome of a branch that made the run_actions calls `calls`.
Dispatched(message, branch, validation, calls) ==
    [ message |-> message, branch |-> branch, validation |-> validation,
      calls |-> calls, escaped |-> Escaping(calls) ]

\* What one call of on_message does: the branch taken, the outcome of
\* __validate_request ("none" when it is not called), the run_actions calls
\* made, and whether an exception left on_message.
Outcome(message, branch, validation, calls, escaped) ==
    [ message |-> message, branch |-> branch, validation |-> validation,
      calls |-> calls, escaped |-> escaped ]

NoOutcome == Outcome(NoMessage, "none", "none", <<>>, FALSE)

on_message(message, signing_key, time, window) ==
    IF message.kind # "object"
    THEN \* json.loads raises, or the JSON value has no .get
         Outcome(message, "none", "none", <<>>, TRUE)
    ELSE IF ActionsTruthy(message.actions)
    THEN IF message.actions.type # "list"
         THEN \* `for action in actions` raises outside any try
              Outcome(message, "legacy", "none", <<>>, TRUE)
         ELSE Dispatched(message, "legacy", "none",
                         LegacyLoop(message.actions.items, 1))
    ELSE IF message.signature = None \/ message.body = None
    THEN \* ActionRequest(**incoming_event) raises a validation error
         Outcome(message, "direct", "none", <<>>, FALSE)
    ELSE LET action_request == [signature |-> message.signature[1],
                                body |-> message.body[1]]
         IN  IF ~validate_request(action_request, signing_key, time, window)
             THEN Outcome(message, "direct", "rejected", <<>>, FALSE)
             ELSE Dispatched(message, "direct", "accepted",
                             <<run_external_action_request(
                                   DirectRequest(action_request.body), 0)>>)

(* ------------------------------- state --------------------------------- *)
VARIABLES
    INCOMING_RECEIVER_ENABLED,             \* environment, read at import
    WEBSOCKET_RELAY_ADDRESS,               \* environment, read at import
    INCOMING_REQUEST_TIME_WINDOW_SECONDS,  \* imported from env_vars
    global_config,   \* what event_handler.get_global_config() returns now
    now,             \* what time.time() returns now
    active,          \* self.active
    pc,              \* where the receiver thread is
    account_id,      \* on_open's local account_id
    sent,            \* frames sent on the current WebSocketApp
    handling,        \* the on_message call that has just run
    stopPhase,       \* history: where the connection was when stop() ran
    keyRotated,      \* history: on the current connection the signing key was
                     \* changed from a non-empty key to another, the current one
    dispatchFailed,  \* history: run_actions raised for an earlier message of
                     \* the current connection
    connections,     \* history: WebSocketApps whose run_forever() is running
    terminated,      \* history: a connection attempt has terminated and no
                     \* connection has opened since
    openedAfterStop, \* history: a WebSocketApp was run after stop() returned
    firstReadCluster \* history: inside on_open, the cluster_name of the
                     \* configuration that account_id was read from

vars ==
    << INCOMING_RECEIVER_ENABLED, WEBSOCKET_RELAY_ADDRESS,
       INCOMING_REQUEST_TIME_WINDOW_SECONDS, global_config, now, active, pc,
       account_id, sent, handling, stopPhase, keyRotated,
       dispatchFailed, connections, terminated, openedAfterStop,
       firstReadCluster >>

env == << INCOMING_RECEIVER_ENABLED, WEBSOCKET_RELAY_ADDRESS,
          INCOMING_REQUEST_TIME_WINDOW_SECONDS >>

GlobalConfigs ==
    [signing_key : KeyValues, account_id : IdValues, cluster_name : ClusterValues]

\* The receiver thread is inside ws.run_forever().
RunningPcs == {"connecting", "on_open", "open", "on_message"}
\* The connection of the current WebSocketApp is open.
OpenPcs == {"on_open", "open", "on_message"}

\* The state after `self.active = True` in __init__, before
\* start_incoming_receiver() runs.
Init ==
    /\ INCOMING_RECEIVER_ENABLED \in {"True", "False", "true"}
    /\ WEBSOCKET_RELAY_ADDRESS \in {"wss://relay.robusta.dev", ""}
    /\ INCOMING_REQUEST_TIME_WINDOW_SECONDS \in {0, MaxWindow}
    /\ global_config \in GlobalConfigs
    /\ now = 0
    /\ active = TRUE
    /\ pc = "unstarted"
    /\ account_id = None
    /\ sent = <<>>
    /\ handling = NoOutcome
    /\ stopPhase = "none"
    /\ connections = 0
    /\ dispatchFailed = FALSE
    /\ keyRotated = FALSE
    /\ terminated = FALSE
    /\ openedAfterStop = FALSE
    /\ firstReadCluster = None

(* --------------------------- main thread ------------------------------- *)
StartsThread_AddressUnchecked(enabled, address) == enabled = "True"

\* The two early returns of start_incoming_receiver.
StartsThread(enabled, address) == enabled = "True" /\ address # ""

\* __init__ calling start_incoming_receiver.
start_incoming_receiver ==
    /\ pc = "unstarted"
    /\ pc' = IF StartsThread(INCOMING_RECEIVER_ENABLED, WEBSOCKET_RELAY_ADDRESS)
             THEN "loop" ELSE "nothread"
    /\ UNCHANGED << env, openedAfterStop, firstReadCluster, keyRotated, dispatchFailed, connections, global_config, now, active, account_id, sent, handling,
                    stopPhase, terminated >>

AfterStop_ClosesConnection(p) == IF p \in OpenPcs THEN "sleep" ELSE p

\* Where the receiver thread is after stop() ran, given where it was: stop()
\* has no statement that touches the thread or the connection.
AfterStop(p) == p

\* stop(), called by another thread on the constructed receiver.
stop ==
    /\ pc # "unstarted"
    /\ active' = FALSE
    /\ pc' = AfterStop(pc)
    /\ stopPhase' = IF pc \in OpenPcs THEN "open"
                    ELSE IF stopPhase = "none" THEN "other" ELSE stopPhase
    /\ UNCHANGED << env, openedAfterStop, firstReadCluster, keyRotated, dispatchFailed, connections, global_config, now,
                    account_id, sent, handling, terminated >>

(* --------------------------- environment ------------------------------- *)
\* The configuration store is changed from outside (e.g. key rotation).
\* on_message is one step, taken at the instant it reads the configuration
\* and the clock; pc = "on_message" is the instant of its return, at which
\* neither has moved on yet.
SetConfig ==
    /\ pc # "on_message"
    /\ \E c \in GlobalConfigs \ {global_config} : global_config' = c
    /\ keyRotated' =
          IF global_config'.signing_key = global_config.signing_key THEN keyRotated
          ELSE /\ pc = "open"
               /\ Truthy(global_config.signing_key)
               /\ Truthy(global_config'.signing_key)
    /\ UNCHANGED << env, openedAfterStop, firstReadCluster, dispatchFailed, connections, now, active, pc, account_id, sent, handling, stopPhase,
                    terminated >>

Tick ==
    /\ pc # "on_message"
    /\ now < MaxTime
    /\ now' = now + 1
    /\ UNCHANGED << env, openedAfterStop, firstReadCluster, keyRotated, dispatchFailed, connections, global_config, active, pc, account_id, sent, handling,
                    stopPhase, terminated >>

(* -------------------------- receiver thread ---------------------------- *)
WhileCondition_IgnoresActive(a) == TRUE

\* `while self.active:` of run_forever.
WhileCondition(a) == a

LoopCheck ==
    /\ pc = "loop"
    /\ pc' = IF WhileCondition(active) THEN "construct" ELSE "done"
    /\ UNCHANGED << env, openedAfterStop, firstReadCluster, keyRotated, dispatchFailed, connections, global_config, now, active, account_id, sent, handling,
                    stopPhase, terminated >>

\* ws = websocket.WebSocketApp(...); ws.run_forever() is entered.
AfterConnect_NonBlocking == "sleep"

\* ws.run_forever() blocks: the thread stays in it while the connection lives.
AfterConnect == "connecting"

Connect ==
    /\ pc = "construct"
    /\ pc' = AfterConnect
    /\ sent' = <<>>
    /\ connections' = connections + 1
    /\ dispatchFailed' = FALSE
    /\ keyRotated' = FALSE
    /\ openedAfterStop' = (openedAfterStop \/ ~active)
    /\ UNCHANGED << env, firstReadCluster, global_config, now, active, account_id, handling,
                    stopPhase, terminated >>

\* ws.run_forever() returns: the history variables at a termination.
Terminate ==
    /\ terminated' = TRUE
    /\ stopPhase' = IF stopPhase = "open" THEN "closed" ELSE stopPhase
    /\ connections' = connections - 1
    /\ dispatchFailed' = FALSE
    /\ keyRotated' = FALSE

\* Where the thread is after ws.run_forever() returned: at
\* time.sleep(INCOMING_WEBSOCKET_RECONNECT_DELAY_SEC).
AfterClose == "sleep"

\* A transport fault (connect failure or mid-stream error): the library
\* calls on_error, which only logs, and ws.run_forever() returns.
on_error ==
    /\ pc \in {"connecting", "open"}
    /\ pc' = AfterClose
    /\ Terminate
    /\ UNCHANGED << env, openedAfterStop, firstReadCluster, global_config, now,
                    active, account_id, sent, handling >>

\* The relay closes the connection.
RemoteClose ==
    /\ pc = "open"
    /\ pc' = AfterClose
    /\ Terminate
    /\ UNCHANGED << env, openedAfterStop, firstReadCluster, global_config, now,
                    active, account_id, sent, handling >>

AfterSleep_GivesUp == "done"

\* time.sleep returns and control goes back to the while test.
AfterSleep == "loop"

Sleep ==
    /\ pc = "sleep"
    /\ pc' = AfterSleep
    /\ UNCHANGED << env, openedAfterStop, firstReadCluster, keyRotated, dispatchFailed, connections, global_config, now, active, account_id, sent, handling,
                    stopPhase, terminated >>

AuthPayload_EitherPresent(account, cluster) ==
    LET either == Truthy(account) \/ Truthy(cluster)
    IN  [ action |-> "auth", key |-> "dummy key", target_id |-> TARGET_ID,
          account_id |-> IF either THEN account ELSE None,
          cluster_name |-> IF either THEN cluster ELSE None ]

\* open_payload of on_open; a field holding None is not in the payload.
AuthPayload(account, cluster) ==
    LET both == Truthy(account) /\ Truthy(cluster)
    IN  [ action |-> "auth", key |-> "dummy key", target_id |-> TARGET_ID,
          account_id |-> IF both THEN account ELSE None,
          cluster_name |-> IF both THEN cluster ELSE None ]

\* on_open, first read of the configuration (line 139).
OnOpenReadAccount ==
    /\ pc = "connecting"
    /\ pc' = "on_open"
    /\ account_id' = global_config.account_id
    /\ firstReadCluster' = global_config.cluster_name
    /\ UNCHANGED << env, openedAfterStop, keyRotated, dispatchFailed, connections, global_config, now, active, sent, handling, stopPhase,
                    terminated >>

\* on_open, second read of the configuration and ws.send (lines 140-145).
OnOpenSend ==
    /\ pc = "on_open"
    /\ pc' = "open"
    /\ sent' = Append(sent, AuthPayload(account_id, global_config.cluster_name))
    /\ account_id' = None
    /\ terminated' = FALSE
    /\ firstReadCluster' = None
    /\ UNCHANGED << env, openedAfterStop, keyRotated, dispatchFailed, connections, global_config, now, active, handling, stopPhase >>

get_signing_key_Cached(config) == Some("k1")

\* get_global_config().get("signing_key"), read inside __validate_request.
get_signing_key(config) == config.signing_key

Replies_RejectionReported(outcome) ==
    IF outcome.validation = "rejected" THEN <<[action |-> "error"]>> ELSE <<>>

\* The frames on_message sends on ws while it makes `outcome`: on_message
\* never uses ws.
Replies(outcome) == <<>>

\* The library delivers an inbound frame: on_message runs to its end.
OnMessage ==
    /\ pc = "open"
    /\ \E message \in Messages :
          handling' = on_message(message, get_signing_key(global_config), now,
                                 INCOMING_REQUEST_TIME_WINDOW_SECONDS)
    /\ sent' = sent \o Replies(handling')
    /\ pc' = "on_message"
    /\ UNCHANGED << env, openedAfterStop, firstReadCluster, keyRotated, dispatchFailed, connections, global_config, now,
                    active, account_id, stopPhase, terminated >>

\* on_message has returned and the library reads on.
OnMessageReturn ==
    /\ pc = "on_message"
    /\ ~handling.escaped
    /\ pc' = "open"
    /\ handling' = NoOutcome
    /\ dispatchFailed' =
          (dispatchFailed \/ \E i \in 1..Len(handling.calls) : handling.calls[i].raised)
    /\ UNCHANGED << env, openedAfterStop, firstReadCluster, keyRotated, connections, global_config, now, active, account_id, sent, stopPhase,
                    terminated >>

\* An exception left on_message: the library logs it, and either reads on or
\* tears the connection down, depending on its version.
OnMessageRaise ==
    /\ pc = "on_message"
    /\ handling.escaped
    /\ handling' = NoOutcome
    /\ \/ /\ pc' = "open"
          /\ UNCHANGED << stopPhase, connections, terminated, dispatchFailed,
                          keyRotated >>
       \/ /\ pc' = AfterClose
          /\ Terminate
    /\ UNCHANGED << env, openedAfterStop, firstReadCluster, global_config, now,
                    active, account_id, sent >>

Next ==
    \/ start_incoming_receiver
    \/ stop
    \/ SetConfig
    \/ Tick
    \/ LoopCheck
    \/ Connect
    \/ on_error
    \/ RemoteClose
    \/ Sleep
    \/ OnOpenReadAccount
    \/ OnOpenSend
    \/ OnMessage
    \/ OnMessageReturn
    \/ OnMessageRaise

Spec == Init /\ [][Next]_vars

\* The receiver thread is scheduled fairly: a step of run_forever that can
\* be taken is eventually taken.
FairSpec ==
    Spec /\ WF_vars(LoopCheck) /\ WF_vars(Connect) /\ WF_vars(Sleep)

TypeOK ==
    /\ active \in BOOLEAN
    /\ now \in 0..MaxTime
    /\ pc \in {"unstarted", "nothread", "loop", "construct", "done", "sleep"}
              \cup RunningPcs
    /\ global_config \in GlobalConfigs
    /\ stopPhase \in {"none", "open", "closed", "other"}
    /\ Len(sent) <= 1
    /\ connections \in 0..1
    /\ dispatchFailed \in BOOLEAN
    /\ keyRotated \in BOOLEAN
    /\ openedAfterStop \in BOOLEAN
    /\ firstReadCluster \in ClusterValues \cup {None}

(* ------------------------- claims: shorthands -------------------------- *)
\* on_message has just handled a direct-format message that parses as an
\* ActionRequest (signature and body present).
HandledSigned ==
    /\ pc = "on_message"
    /\ handling.branch = "direct"
    /\ handling.message.signature # None
    /\ handling.message.body # None

HandledBody == handling.message.body[1]
HandledSignature == handling.message.signature[1]
ConfigKey == global_config.signing_key

\* The request is older than the freshness window.
Stale(body) == now - body.timestamp > INCOMING_REQUEST_TIME_WINDOW_SECONDS

\* The request carries the signature a holder of the configured key makes.
Authentic(body, signature) ==
    Truthy(ConfigKey) /\ signature = Sign(body, ConfigKey[1])

(* --------------------------------- C1 ---------------------------------- *)
\* C1 as stated: whatever the format of the message, run_actions is called
\* only after a successful validation of the request in the same on_message
\* call.
C1_AsStated == Len(handling.calls) > 0 => handling.validation = "accepted"

\* C1, amended: a run_actions call of the direct-format branch is made only
\* after a successful validation, for a request that is authentic and not
\* stale; the legacy branch dispatches without any validation.
C1_DirectDispatchValidated ==
    /\ (handling.branch = "direct" /\ Len(handling.calls) > 0) =>
          /\ handling.validation = "accepted"
          /\ HandledSigned
          /\ Authentic(HandledBody, HandledSignature)
          /\ ~Stale(HandledBody)
    /\ handling.branch = "legacy" => handling.validation = "none"

C1_Witness ==
    /\ HandledSigned
    /\ Len(handling.calls) = 1
    /\ HandledBody.timestamp < now

(* --------------------------------- C2 ---------------------------------- *)
\* C2: a direct-format message that is stale, or whose signature is not the
\* expected one, or that arrives while the signing key is absent or empty,
\* causes no run_actions call, and on_message returns normally.
C2_InvalidDirectNotDispatched ==
    ( /\ pc = "on_message"
      /\ handling.branch = "direct"
      /\ handling.message.body # None
      /\ \/ ~Truthy(ConfigKey)
         \/ Stale(HandledBody)
         \/ handling.message.signature = None
         \/ ~Authentic(HandledBody, HandledSignature) )
    => (handling.calls = <<>> /\ ~handling.escaped)

\* The key is empty and the signature is the HMAC made with the empty key.
C2_Witness ==
    /\ HandledSigned
    /\ ConfigKey = Some("")
    /\ HandledSignature = Sign(HandledBody, "")
    /\ ~Stale(HandledBody)
    /\ handling.validation = "rejected"

(* --------------------------------- C3 ---------------------------------- *)
\* C3: a direct-format message with a valid signature and a fresh timestamp
\* causes exactly one run_actions call, for a request with target_id "" and
\* the body's action_name, action_params and sinks.
C3_ValidDirectDispatchedOnce ==
    ( /\ HandledSigned
      /\ Authentic(HandledBody, HandledSignature)
      /\ ~Stale(HandledBody) )
    => /\ Len(handling.calls) = 1
       /\ LET call == handling.calls[1]
          IN  /\ call.callback_request.target_id = ""
              /\ call.callback_request.action_name = HandledBody.action_name
              /\ call.callback_request.action_params = HandledBody.action_params
              /\ call.callback_request.sinks = HandledBody.sinks
              /\ call.action.action_name = HandledBody.action_name
              /\ call.action.action_params = HandledBody.action_params
              /\ call.named_sinks = HandledBody.sinks

C3_Witness ==
    /\ HandledSigned
    /\ handling.validation = "accepted"
    /\ HandledBody.action_name = "restart_pod"
    /\ handling.calls[1].named_sinks = Some(<<"slack", "file">>)
    /\ handling.calls[1].callback_request.target_id = ""

(* --------------------------------- C4 ---------------------------------- *)
\* C4: whatever the raw message, no exception leaves on_message and the
\* offending message causes no run_actions call.
C4_NoExceptionEscapes ==
    /\ ~handling.escaped
    /\ handling.message.kind \in {"text", "array"} => handling.calls = <<>>

(* --------------------------------- C5 ---------------------------------- *)
\* The entries of a list whose value parses.
Parseable(items) ==
    {i \in 1..Len(items) : items[i].value.parses}

\* C5: for a legacy-format message, there is exactly one run_actions call
\* per parseable entry, the calls are in entry order, each for its entry's
\* request, whatever entries fail to parse or fail in dispatch, and no
\* exception leaves on_message.
C5_LegacyEntriesIsolated ==
    ( /\ pc = "on_message"
      /\ handling.message.kind = "object"
      /\ handling.message.actions.type = "list"
      /\ Len(handling.message.actions.items) > 0 )
    => LET items == handling.message.actions.items
           calls == handling.calls
       IN  /\ ~handling.escaped
           /\ Len(calls) = Cardinality(Parseable(items))
           /\ \A j \in 1..Len(calls) :
                 /\ calls[j].entry \in Parseable(items)
                 /\ calls[j].callback_request =
                       items[calls[j].entry].value.incoming_request
                 /\ \A k \in 1..Len(calls) :
                       j < k => calls[j].entry < calls[k].entry

\* Three entries: the first fails in dispatch, the second does not parse,
\* and the first and the third are dispatched.
C5_Witness ==
    /\ pc = "on_message"
    /\ handling.branch = "legacy"
    /\ handling.message.actions.type = "list"
    /\ Len(handling.message.actions.items) = 3
    /\ 2 \notin Parseable(handling.message.actions.items)
    /\ Len(handling.calls) = 2
    /\ handling.calls[1].raised
    /\ handling.calls[1].entry = 1
    /\ handling.calls[2].entry = 3
    /\ ~handling.calls[2].raised

(* --------------------------------- C6 ---------------------------------- *)
\* C6: once the connection that was open when stop() was called has closed,
\* the loop constructs and opens no further connection.
C6_NoReconnectAfterStop ==
    stopPhase = "closed" => pc \in {"sleep", "loop", "done"}

C6_Witness == stopPhase = "closed" /\ pc = "done"

(* --------------------------------- C7 ---------------------------------- *)
\* C7: while stop() has not been called, a terminated connection is
\* eventually followed by a new connection attempt, and the loop exits only
\* when active is false.
C7_ReconnectsForever ==
    /\ (pc = "sleep" /\ active) ~> (pc = "connecting" \/ ~active)
    /\ [][(pc # "done" /\ pc' = "done") => ~active]_vars

C7_Witness == terminated /\ active /\ pc = "connecting"

(* --------------------------------- C8 ---------------------------------- *)
\* C8: when a connection terminates while active is already false, the loop
\* exits at once, without the reconnect-delay wait.
C8_NoDelayWhenStopped ==
    [][(pc \in RunningPcs /\ pc' \notin RunningPcs /\ ~active) => pc' = "done"]_vars

(* --------------------------------- C9 ---------------------------------- *)
\* C9: with a non-empty key, a correctly signed request validates as true at
\* every time from its timestamp up to and including timestamp + window,
\* and as false at every later time.
C9_FreshnessWindow ==
    ( /\ HandledSigned
      /\ Authentic(HandledBody, HandledSignature)
      /\ now >= HandledBody.timestamp )
    => ( handling.validation = "accepted"
         <=> now <= HandledBody.timestamp + INCOMING_REQUEST_TIME_WINDOW_SECONDS )

\* The last instant of the window, for a window that is not empty.
C9_Witness ==
    /\ HandledSigned
    /\ Authentic(HandledBody, HandledSignature)
    /\ INCOMING_REQUEST_TIME_WINDOW_SECONDS > 0
    /\ now = HandledBody.timestamp + INCOMING_REQUEST_TIME_WINDOW_SECONDS
    /\ handling.validation = "accepted"

(* --------------------------------- C10 --------------------------------- *)
\* C10: when incoming processing is disabled or the relay address is empty,
\* start_incoming_receiver starts no thread, and afterwards no connection is
\* opened, nothing is sent and no message is handled or dispatched.
C10_SendOnlyMode ==
    ( /\ pc # "unstarted"
      /\ (INCOMING_RECEIVER_ENABLED # "True" \/ WEBSOCKET_RELAY_ADDRESS = "") )
    => (pc = "nothread" /\ sent = <<>> /\ handling = NoOutcome)

C10_Witness ==
    /\ pc = "nothread"
    /\ INCOMING_RECEIVER_ENABLED = "True"
    /\ WEBSOCKET_RELAY_ADDRESS = ""
    /\ ~active

(* --------------------------------- C11 --------------------------------- *)
\* C11: the payload on_open sends always holds action "auth", a key and
\* target_id; it holds account_id and cluster_name, with the values read from
\* the configuration, exactly when both values read are non-empty, and
\* neither of them otherwise.
C11_AuthPayload ==
    [][ (pc = "on_open" /\ pc' = "open") =>
          LET payload == sent'[Len(sent')]
              cluster_name == global_config.cluster_name
          IN  /\ Len(sent') = Len(sent) + 1
              /\ payload.action = "auth"
              /\ payload.key = "dummy key"
              /\ payload.target_id = TARGET_ID
              /\ IF Truthy(account_id) /\ Truthy(cluster_name)
                 THEN /\ payload.account_id = account_id
                      /\ payload.cluster_name = cluster_name
                 ELSE /\ payload.account_id = None
                      /\ payload.cluster_name = None ]_vars

\* A payload with both fields, and the configuration it was made from.
C11_Witness ==
    /\ pc = "open"
    /\ Len(sent) = 1
    /\ sent[1].account_id = Some("acct")
    /\ sent[1].cluster_name = Some("cluster")
    /\ global_config.account_id = Some("acct")
    /\ global_config.cluster_name = Some("cluster")

(* --------------------------------- C12 --------------------------------- *)
\* C12: at most one connection is open at any time, a new connection is
\* constructed only when the previous one has terminated, and a message is
\* being handled only by the one thread, inside the one open connection.
C12_OneConnectionOneHandler ==
    /\ connections <= 1
    /\ pc = "construct" => connections = 0
    /\ connections = 1 <=> pc \in RunningPcs
    /\ handling # NoOutcome => (pc = "on_message" /\ connections = 1)

\* A connection made after an earlier one has ended.
C12_Witness ==
    /\ connections = 1
    /\ pc = "connecting"
    /\ terminated
    /\ stopPhase = "none"

(* --------------------------------- C13 --------------------------------- *)
\* run_actions raised while the message just handled was processed.
DispatchRaised == \E i \in 1..Len(handling.calls) : handling.calls[i].raised

\* C13: when run_actions raises, on_message still returns normally and the
\* connection stays open; a later message on that connection is dispatched
\* as it would be without the failure: a valid direct request once, a legacy
\* message once per parseable entry.
C13_DispatchFailureContained ==
    [][ /\ (pc' = "on_message" /\ DispatchRaised') => ~handling'.escaped
        /\ (pc = "on_message" /\ DispatchRaised /\ pc' # pc) =>
              (pc' = "open" /\ connections' = connections /\ dispatchFailed')
        /\ (dispatchFailed' /\ pc' = "on_message") =>
              /\ ~handling'.escaped \/ handling'.calls = <<>>
              /\ (HandledSigned' /\ Authentic(HandledBody, HandledSignature)'
                    /\ ~Stale(HandledBody)') => Len(handling'.calls) = 1
              /\ (handling'.branch = "legacy" /\ ~handling'.escaped) =>
                    Len(handling'.calls) =
                       Cardinality(Parseable(handling'.message.actions.items)) ]_vars

\* After a failed dispatch on this connection, a request is dispatched and
\* its run_actions call succeeds.
C13_Witness ==
    /\ dispatchFailed
    /\ pc = "on_message"
    /\ handling.validation = "accepted"
    /\ Len(handling.calls) = 1
    /\ ~handling.calls[1].raised

(* --------------------------------- C14 --------------------------------- *)
\* C14: a validation depends on no key but the one the configuration holds
\* at that moment: a fresh request is accepted exactly when it is signed with
\* that key, so after a rotation on the open connection a request signed
\* with the new key is accepted and one signed with another key is rejected.
C14_KeyReadAtValidation ==
    (HandledSigned /\ ~Stale(HandledBody)) =>
       /\ handling.validation = "accepted"
             <=> Authentic(HandledBody, HandledSignature)
       /\ keyRotated =>
             \A k \in {"k1", "k2", ""} :
                HandledSignature = Sign(HandledBody, k) =>
                   (handling.validation = "accepted" <=> Some(k) = ConfigKey)

\* The key was rotated from k1 to k2 and a request signed with k2 is accepted.
C14_Witness ==
    /\ keyRotated
    /\ ConfigKey = Some("k2")
    /\ HandledSigned
    /\ HandledSignature = Sign(HandledBody, "k2")
    /\ handling.validation = "accepted"

(* --------------------------------- C15 --------------------------------- *)
\* C15: once active is false and no connection is running, the loop
\* eventually exits and the thread ends (so it does after the connection
\* that was open at stop() has terminated); the loop exits nowhere but at
\* its while test, with active false.
C15_LoopExitsAfterStop ==
    /\ (~active /\ pc \in {"sleep", "loop"}) ~> (pc = "done")
    /\ [][(pc # "done" /\ pc' = "done") => (pc = "loop" /\ ~active)]_vars

C15_Witness ==
    /\ pc = "done"
    /\ stopPhase = "closed"
    /\ Len(sent) = 1
    /\ connections = 0

(* --------------------------------- C16 --------------------------------- *)
\* C16: stop() changes nothing but active (the connection, what was sent,
\* the message being handled and the thread's position stay as they are),
\* and a message handled after stop() is validated and dispatched as before
\* stop(): a valid direct request once, an invalid one not at all, a legacy
\* message once per parseable entry.
C16_StopOnlyClearsActive ==
    [][ /\ (active /\ ~active') =>
              UNCHANGED << env, global_config, now, pc, account_id, sent,
                           handling, connections >>
        /\ (~active' /\ pc' = "on_message") =>
              /\ HandledSigned' =>
                    Len(handling'.calls) =
                       IF Authentic(HandledBody, HandledSignature)' /\ ~Stale(HandledBody)'
                       THEN 1 ELSE 0
              /\ (handling'.branch = "legacy" /\ ~handling'.escaped) =>
                    Len(handling'.calls) =
                       Cardinality(Parseable(handling'.message.actions.items)) ]_vars

\* stop() ran while the connection was open, and a request delivered
\* afterwards is accepted and dispatched.
C16_Witness ==
    /\ ~active
    /\ stopPhase = "open"
    /\ pc = "on_message"
    /\ handling.validation = "accepted"
    /\ Len(handling.calls) = 1

(* --------------------------------- C17 --------------------------------- *)
\* C17: the direct-format path is taken only for a message without an
\* `actions` field.
C17_DirectOnlyWithoutActions ==
    handling.branch = "direct" => handling.message.actions.type = "absent"

(* --------------------------------- C18 --------------------------------- *)
\* C18: whatever messages were handled on a connection, accepted, rejected,
\* malformed or failing in dispatch, the only frame sent on it is the auth
\* payload of on_open.
C18_NoReplyToRelay ==
    /\ Len(sent) <= 1
    /\ pc \in {"open", "on_message"} => (Len(sent) = 1 /\ sent[1].action = "auth")

\* A request has just been rejected, after a failed dispatch on the same
\* connection, and nothing but the auth payload was sent.
C18_Witness ==
    /\ pc = "on_message"
    /\ handling.validation = "rejected"
    /\ dispatchFailed
    /\ Len(sent) = 1

(* --------------------------------- C19 --------------------------------- *)
\* C19: wherever stop() falls in the loop, at most one connection is opened
\* after it returned (a connection is opened with active false only if none
\* was before), and no step sets active back to true.
C19_OneConnectionAfterStop ==
    [][ /\ (pc = "construct" /\ pc' # "construct" /\ ~active) => ~openedAfterStop
        /\ ~active => ~active' ]_vars

\* stop() fell between the while test and the construction, and the one
\* connection opened after it has ended.
C19_Witness ==
    /\ openedAfterStop
    /\ stopPhase = "other"
    /\ pc = "done"

(* --------------------------------- C20 --------------------------------- *)
\* C20: the account_id and the cluster_name of one auth payload are those of
\* one configuration: the one on_open read account_id from, or the one it
\* read cluster_name from.
C20_IdentityFromOneSnapshot ==
    [][ (pc = "on_open" /\ pc' = "open" /\ sent'[Len(sent')].account_id # None) =>
          LET payload == sent'[Len(sent')]
          IN  \/ payload.cluster_name = firstReadCluster
              \/ payload.account_id = global_config.account_id ]_vars

====
